---- MODULE Spec2Model ----
(***************************************************************************)
(* GPS track-processing pipeline of tms-temp.                              *)
(*                                                                         *)
(*   src/src/workers/TrackProcessor.worker.ts   processTrack and helpers   *)
(*   src/unnamed/part_030                       KalmanService              *)
(*   src/unnamed/part_031                       OsrmService.matchPath      *)
(*   src/src/utils/geo.util.ts                  calculateDistance          *)
(*                                                                         *)
(* Units.  Coordinates live on an integer grid of metres (latitude and     *)
(* longitude are both metre offsets from a reference point), timestamps    *)
(* and the wall clock are whole seconds, confidences are hundredths        *)
(* (0.5 is 50) and the Kalman covariances are thousandths (1.0 is 1000).   *)
(* Every await of processTrack is one step of a worker: what the code      *)
(* does between two awaits happens atomically in the step that resumes it. *)
(***************************************************************************)
EXTENDS Integers, Sequences, FiniteSets, TLC

\* ------------------------------------------------------------------ bounds
NumWorkers == 2
MaxDeliveries == 2
MaxJobs == 2
MaxRuns == 1
MaxPoints == 4
MaxCalls == 3

\* ------------------------------------------------------- program constants
STOP_THRESHOLD_METERS == 5
MAX_LAST_LOCATION_AGE_SECONDS == 300
OSRM_CONTEXT_POINTS == 10
OSRM_MIN_CONFIDENCE == 50
processNoise == 1
measurementNoise == 5000
InitialErrorCovariance == 1000
attempts == 3

\* ------------------------------------------------------------------ inputs
Coord(lat, lng) == [latitude |-> lat, longitude |-> lng]

\* The number that is not one (JavaScript's NaN), as a value off the grid.
NaN == 1000000

\* isNumber of @turf/helpers, and what mongoose casts to a Number.
IsNumber(x) == x # NaN

ValidCoord(c) == IsNumber(c.latitude) /\ IsNumber(c.longitude)

\* The DeviceMatrix collection: raw samples as written by ingestion.
\* Sample 1 is the first point of device 1, sample 2 lies 3 m from it,
\* sample 3 exactly 5 m from it, sample 4 lies 25 m away; sample 5 belongs
\* to another device; sample 6 was written with a latitude that is NaN.
DeviceMatrix ==
  [id \in 1..8 |->
     CASE id = 1 -> [_id |-> 1, deviceId |-> 1, tripId |-> 7, timestamp |-> 0,
                     coordinates |-> Coord(0, 0), metadata |-> [accuracy |-> 10]]
       [] id = 2 -> [_id |-> 2, deviceId |-> 1, tripId |-> 7, timestamp |-> 30,
                     coordinates |-> Coord(3, 0), metadata |-> [accuracy |-> 10]]
       [] id = 3 -> [_id |-> 3, deviceId |-> 1, tripId |-> 7, timestamp |-> 30,
                     coordinates |-> Coord(3, 4), metadata |-> [accuracy |-> 10]]
       [] id = 4 -> [_id |-> 4, deviceId |-> 1, tripId |-> 7, timestamp |-> 60,
                     coordinates |-> Coord(15, 20), metadata |-> << >>]
       [] id = 5 -> [_id |-> 5, deviceId |-> 2, tripId |-> 0, timestamp |-> 0,
                     coordinates |-> Coord(0, 10), metadata |-> << >>]
       [] id = 6 -> [_id |-> 6, deviceId |-> 1, tripId |-> 7, timestamp |-> 30,
                     coordinates |-> Coord(NaN, 0), metadata |-> << >>]
       [] id = 7 -> [_id |-> 7, deviceId |-> 1, tripId |-> 7, timestamp |-> 30,
                     coordinates |-> Coord(3, 9), metadata |-> << >>]
       [] OTHER  -> [_id |-> 8, deviceId |-> 1, tripId |-> 7, timestamp |-> 45,
                     coordinates |-> Coord(0, 3), metadata |-> << >>]]

RawIds == DOMAIN DeviceMatrix
\* An id that no raw document carries.
UnknownRawId == 0
\* The jobs of the first samples that satisfy the data invariants, and of
\* the unknown id.
JobIds == {id \in 1..6 : ValidCoord(DeviceMatrix[id].coordinates)}
             \cup {UnknownRawId}
DeviceIds == {DeviceMatrix[i].deviceId : i \in RawIds}

\* Wall-clock instants at which a step may run (Date.now()).
ClockValues == {300, 301}

\* Confidences an OSRM matching may carry.
ConfidenceValues == {49, 50}

\* ------------------------------------------------------------ geo.util.ts
ISqrt(n) == CHOOSE r \in 0..n : r * r <= n /\ (r + 1) * (r + 1) > n

\* Planar distance on the metre grid, rounded down to whole metres.
calculateDistance(from, to) ==
  LET dLat == from.latitude - to.latitude
      dLng == from.longitude - to.longitude
  IN ISqrt(dLat * dLat + dLng * dLng)

\* ---------------------------------------------------------- KalmanService
TruncDiv(a, b) == IF a >= 0 THEN a \div b ELSE -((-a) \div b)

applyKalmanFilter(previousEstimate, measurement, errorCovariance) ==
  LET predictedErrorCovariance == errorCovariance + processNoise
  IN previousEstimate
       + TruncDiv(predictedErrorCovariance * (measurement - previousEstimate),
                  predictedErrorCovariance + measurementNoise)

updateErrorCovariance(currentErrorCovariance) ==
  LET predictedErrorCovariance == currentErrorCovariance + processNoise
  IN (measurementNoise * predictedErrorCovariance)
        \div (predictedErrorCovariance + measurementNoise)

\* The value filter() returns.
filter(states, deviceId, noisyPoint) ==
  IF deviceId \notin DOMAIN states
    THEN noisyPoint
    ELSE Coord(applyKalmanFilter(states[deviceId].latitude, noisyPoint.latitude,
                                 states[deviceId].errorCovariance),
               applyKalmanFilter(states[deviceId].longitude, noisyPoint.longitude,
                                 states[deviceId].errorCovariance))

\* The state map filter() leaves behind.
filterStates(states, deviceId, noisyPoint) ==
  LET out == filter(states, deviceId, noisyPoint)
      cov == IF deviceId \in DOMAIN states
               THEN updateErrorCovariance(states[deviceId].errorCovariance)
               ELSE InitialErrorCovariance
  IN [d \in DOMAIN states \cup {deviceId} |->
        IF d = deviceId
          THEN [latitude |-> out.latitude, longitude |-> out.longitude,
                errorCovariance |-> cov]
          ELSE states[d]]

\* (states.clear() in the place of states.delete(deviceId))
resetDevice_All(states, deviceId) == << >>

resetDevice(states, deviceId) ==
  [d \in DOMAIN states \ {deviceId} |-> states[d]]

clearAll(states) == << >>

\* ------------------------------------------------------------ OsrmService
Echo(points) ==
  [i \in 1..Len(points) |->
     [lat |-> points[i].lat, lng |-> points[i].lng, confidence |-> 0]]

\* What the map matcher may answer to a request of n points.  kind "error"
\* is an axios rejection (transport error, timeout, HTTP 5xx, unparseable
\* body); otherwise the body carries a code, maybe tracepoints (each null
\* or a location [lng, lat]) and maybe a first matching with a confidence.
Tracepoints(points, len, tailNull, restNull, shift) ==
  [i \in 1..len |->
     [isNull |-> IF i = len THEN tailNull ELSE restNull,
      location |-> IF i <= Len(points)
                     THEN << points[i].lng + shift[1], points[i].lat + shift[2] >>
                     ELSE << shift[1], shift[2] >>]]

SnapShifts == { << 2, 1 >> }

OsrmResponses(points) ==
  LET n == Len(points)
      none == [kind |-> "error", code |-> "", hasTracepoints |-> FALSE,
               tracepoints |-> << >>, hasMatching |-> FALSE, confidence |-> 0]
      Body(len, tn, rn, sh, hm, c) ==
        [kind |-> "body", code |-> "Ok", hasTracepoints |-> TRUE,
         tracepoints |-> Tracepoints(points, len, tn, rn, sh),
         hasMatching |-> hm, confidence |-> IF hm THEN c ELSE 0]
  IN {none}
     \cup {[none EXCEPT !.kind = "body", !.code = c] :
             c \in {"NoMatch", "NoSegment", "InvalidQuery", "Ok"}}
     \* one tracepoint per input point
     \cup {Body(n, tn, rn, sh, hm, c) :
             tn \in BOOLEAN, rn \in BOOLEAN, sh \in SnapShifts,
             hm \in BOOLEAN, c \in ConfidenceValues}
     \* fewer or more tracepoints than input points
     \cup {Body(len, tn, FALSE, sh, TRUE, c) :
             len \in {0, n - 1, n + 1}, tn \in BOOLEAN, sh \in SnapShifts,
             c \in {OSRM_MIN_CONFIDENCE}}

\* (latitude and longitude of a tracepoint read in GeoJSON's own order)
matchPath_LatFirst(points, response) ==
  IF Len(points) < 3 THEN Echo(points)
  ELSE IF response.kind = "error" THEN Echo(points)
  ELSE IF response.code \in {"NoMatch", "NoSegment"} THEN Echo(points)
  ELSE IF response.code # "Ok" \/ ~response.hasTracepoints THEN Echo(points)
  ELSE LET tracepoints == response.tracepoints
           overallConfidence ==
             IF response.hasMatching THEN response.confidence ELSE 0
       IN IF \E i \in 1..Len(tracepoints) :
               tracepoints[i].isNull /\ i > Len(points)
            THEN Echo(points)
            ELSE [i \in 1..Len(tracepoints) |->
                    IF tracepoints[i].isNull
                      THEN [lat |-> points[i].lat, lng |-> points[i].lng,
                            confidence |-> 0]
                      ELSE [lat |-> tracepoints[i].location[1],
                            lng |-> tracepoints[i].location[2],
                            confidence |-> overallConfidence]]

matchPath(points, response) ==
  IF Len(points) < 3 THEN Echo(points)
  ELSE IF response.kind = "error" THEN Echo(points)
  ELSE IF response.code \in {"NoMatch", "NoSegment"} THEN Echo(points)
  ELSE IF response.code # "Ok" \/ ~response.hasTracepoints THEN Echo(points)
  ELSE LET tracepoints == response.tracepoints
           overallConfidence ==
             IF response.hasMatching THEN response.confidence ELSE 0
       IN \* points[i] of a null tracepoint beyond the input is undefined:
          \* the TypeError lands in matchPath's own catch
          IF \E i \in 1..Len(tracepoints) :
               tracepoints[i].isNull /\ i > Len(points)
            THEN Echo(points)
            ELSE [i \in 1..Len(tracepoints) |->
                    IF tracepoints[i].isNull
                      THEN [lat |-> points[i].lat, lng |-> points[i].lng,
                            confidence |-> 0]
                      ELSE [lat |-> tracepoints[i].location[2],
                            lng |-> tracepoints[i].location[1],
                            confidence |-> overallConfidence]]

\* ------------------------------------------------- TrackProcessor.worker.ts
None == << >>
Some(x) == << x >>

\* { ...a, ...b }
Spread(a, b) ==
  [k \in DOMAIN a \cup DOMAIN b |-> IF k \in DOMAIN b THEN b[k] ELSE a[k]]

\* calculateSpeed() of geo.util.ts, in mm/s: 0 over no time.
calculateSpeed(distanceMeters, timeDiffSeconds) ==
  IF timeDiffSeconds = 0
    THEN [finite |-> TRUE, value |-> 0]
    ELSE [finite |-> TRUE, value |-> (distanceMeters * 1000) \div timeDiffSeconds]

\* distance / timeDiffSeconds in mm/s; a division by zero is Infinity.
SpeedOf(distance, timeDiffSeconds) ==
  IF timeDiffSeconds = 0
    THEN [finite |-> FALSE, value |-> 0]
    ELSE [finite |-> TRUE, value |-> (distance * 1000) \div timeDiffSeconds]

\* (latitude and longitude exchanged)
saveProcessedMatrix_Swapped(rawMatrix, filteredCoordinates, additionalMetadata, clock) ==
  LET coordinates == IF filteredCoordinates = None
                       THEN rawMatrix.coordinates
                       ELSE filteredCoordinates[1]
  IN [timestamp |-> rawMatrix.timestamp,
      deviceId |-> rawMatrix.deviceId,
      tripId |-> rawMatrix.tripId,
      coordinates |-> Coord(coordinates.longitude, coordinates.latitude),
      metadata |-> Spread(Spread(rawMatrix.metadata, additionalMetadata),
                          [processedAt |-> clock, rawMatrixId |-> rawMatrix._id])]

\* (the document dated by the clock rather than by the raw sample)
saveProcessedMatrix_Now(rawMatrix, filteredCoordinates, additionalMetadata, clock) ==
  LET coordinates == IF filteredCoordinates = None
                       THEN rawMatrix.coordinates
                       ELSE filteredCoordinates[1]
  IN [timestamp |-> clock,
      deviceId |-> rawMatrix.deviceId,
      tripId |-> rawMatrix.tripId,
      coordinates |-> Coord(coordinates.latitude, coordinates.longitude),
      metadata |-> Spread(Spread(rawMatrix.metadata, additionalMetadata),
                          [processedAt |-> clock, rawMatrixId |-> rawMatrix._id])]

\* The document saveProcessedMatrix() hands to save().
saveProcessedMatrix(rawMatrix, filteredCoordinates, additionalMetadata, clock) ==
  LET coordinates == IF filteredCoordinates = None
                       THEN rawMatrix.coordinates
                       ELSE filteredCoordinates[1]
  IN [timestamp |-> rawMatrix.timestamp,
      deviceId |-> rawMatrix.deviceId,
      tripId |-> rawMatrix.tripId,
      coordinates |-> Coord(coordinates.latitude, coordinates.longitude),
      metadata |-> Spread(Spread(rawMatrix.metadata, additionalMetadata),
                          [processedAt |-> clock, rawMatrixId |-> rawMatrix._id])]

\* The three tests of the filtering logic (lines 73, 89 and 120).
\* (the test of line 73 left out)
IsOutOfOrder_Never(timeDiffSeconds) == FALSE

IsOutOfOrder_Inclusive(timeDiffSeconds) == timeDiffSeconds <= 0

IsOutOfOrder(timeDiffSeconds) == timeDiffSeconds < 0

IsStale_Inclusive(lastProcessedAge) ==
  lastProcessedAge >= MAX_LAST_LOCATION_AGE_SECONDS

IsStale(lastProcessedAge) == lastProcessedAge > MAX_LAST_LOCATION_AGE_SECONDS

IsStop_Inverted(distance) == distance > STOP_THRESHOLD_METERS

IsStop_Inclusive(distance) == distance <= STOP_THRESHOLD_METERS

IsStop(distance) == distance < STOP_THRESHOLD_METERS

\* lastProcessed.metadata?.stopCount || 0
StopCountOf(doc) ==
  IF "stopCount" \in DOMAIN doc.metadata THEN doc.metadata.stopCount ELSE 0

\* (the update also moving the sample to the time of the stop)
StopUpdate_Touch(doc, rawTimestamp, stopCountRead) ==
  [doc EXCEPT !.timestamp = rawTimestamp,
              !.metadata =
     Spread(doc.metadata, [lastSeen |-> rawTimestamp,
                           stopCount |-> stopCountRead + 1])]

\* The $set of the stop-detection update applied to a stored document.
StopUpdate(doc, rawTimestamp, stopCountRead) ==
  [doc EXCEPT !.metadata =
     Spread(doc.metadata, [lastSeen |-> rawTimestamp,
                           stopCount |-> stopCountRead + 1])]

\* The list handed to osrmService.matchPath (lines 168-182).
MatchPoint(lat, lng, timestamp, metadata) ==
  [lat |-> lat, lng |-> lng, timestamp |-> timestamp,
   accuracy |-> IF "accuracy" \in DOMAIN metadata
                  THEN Some(metadata.accuracy) ELSE None]

Reverse(s) == [i \in 1..Len(s) |-> s[Len(s) + 1 - i]]

\* (the recent points left newest-first, without reverse())
PointsForMatching_NoReverse(recentPoints, smoothed, rawMatrix) ==
  [i \in 1..Len(recentPoints) |->
     MatchPoint(recentPoints[i].coordinates.latitude,
                recentPoints[i].coordinates.longitude,
                recentPoints[i].timestamp, recentPoints[i].metadata)]
  \o << MatchPoint(smoothed.latitude, smoothed.longitude,
                   rawMatrix.timestamp, rawMatrix.metadata) >>

\* Lines 168-182: the context oldest-first, then the current point.
PointsForMatching(recentPoints, smoothed, rawMatrix) ==
  LET recent == Reverse(recentPoints)
  IN [i \in 1..Len(recent) |->
        MatchPoint(recent[i].coordinates.latitude,
                   recent[i].coordinates.longitude,
                   recent[i].timestamp, recent[i].metadata)]
     \o << MatchPoint(smoothed.latitude, smoothed.longitude,
                      rawMatrix.timestamp, rawMatrix.metadata) >>

\* (no catch around the reading of the tail: the TypeError escapes)
SelectFinal_Rethrow(matchedPoints, smoothed) ==
  IF Len(matchedPoints) = 0
    THEN [finalCoordinates |-> smoothed, processingMethod |-> "rethrown",
          matchingConfidence |-> 0]
    ELSE LET currentMatchedPoint == matchedPoints[Len(matchedPoints)]
         IN IF currentMatchedPoint.confidence >= OSRM_MIN_CONFIDENCE
              THEN [finalCoordinates |-> Coord(currentMatchedPoint.lat,
                                               currentMatchedPoint.lng),
                    processingMethod |-> "osrm",
                    matchingConfidence |-> currentMatchedPoint.confidence]
              ELSE [finalCoordinates |-> smoothed,
                    processingMethod |-> "kalman",
                    matchingConfidence |-> currentMatchedPoint.confidence]

\* (strict comparison with the confidence threshold)
SelectFinal_Strict(matchedPoints, smoothed) ==
  IF Len(matchedPoints) = 0
    THEN [finalCoordinates |-> smoothed, processingMethod |-> "kalman_fallback",
          matchingConfidence |-> 0]
    ELSE LET currentMatchedPoint == matchedPoints[Len(matchedPoints)]
         IN IF currentMatchedPoint.confidence > OSRM_MIN_CONFIDENCE
              THEN [finalCoordinates |-> Coord(currentMatchedPoint.lat,
                                               currentMatchedPoint.lng),
                    processingMethod |-> "osrm",
                    matchingConfidence |-> currentMatchedPoint.confidence]
              ELSE [finalCoordinates |-> smoothed,
                    processingMethod |-> "kalman",
                    matchingConfidence |-> currentMatchedPoint.confidence]

\* Lines 191-234: what the processor makes of matchPath's answer.  Reading
\* .confidence of the tail of an empty list is a TypeError, which the
\* catch of line 226 turns into kalman_fallback.
SelectFinal(matchedPoints, smoothed) ==
  IF Len(matchedPoints) = 0
    THEN [finalCoordinates |-> smoothed, processingMethod |-> "kalman_fallback",
          matchingConfidence |-> 0]
    ELSE LET currentMatchedPoint == matchedPoints[Len(matchedPoints)]
         IN IF currentMatchedPoint.confidence >= OSRM_MIN_CONFIDENCE
              THEN [finalCoordinates |-> Coord(currentMatchedPoint.lat,
                                               currentMatchedPoint.lng),
                    processingMethod |-> "osrm",
                    matchingConfidence |-> currentMatchedPoint.confidence]
              ELSE [finalCoordinates |-> smoothed,
                    processingMethod |-> "kalman",
                    matchingConfidence |-> currentMatchedPoint.confidence]

\* ------------------------------------------------------------------- state
VARIABLES
  processed,    \* ProcessedDeviceMatrix collection, in insertion order
  history,      \* per processed document: how it came about (bookkeeping)
  states,       \* KalmanService.states of the worker process
  inflight,     \* the processTrack runs in progress: a bag of their locals
  last,         \* how the run that ended most recently ended (bookkeeping)
  deliveries,   \* number of jobs handed to processTrack so far
  now,          \* wall clock
  queue,        \* the jobs of the BullMQ queue, by job id
  phase,        \* how far the worker process is in its shutdown
  call          \* the service call made last and what it returned (bookkeeping)

vars ==
  << processed, history, states, inflight, last, deliveries, now, queue,
     phase, call >>

\* The locals of a run of processTrack that has just been handed its job.
NewJob(id) ==
  [pc |-> "findOne", rawMatrixId |-> id, lastProcessed |-> 0,
   stopCountRead |-> 0, timeDiffSeconds |-> 0, lastProcessedAge |-> 0,
   distance |-> 0, kalmanSmoothedCoordinates |-> Coord(0, 0),
   hadState |-> FALSE, pointsForMatching |-> << >>, matcher |-> "none",
   matchedTail |-> None, finalCoordinates |-> Coord(0, 0),
   processingMethod |-> "kalman", matchingConfidence |-> 0, failed |-> {}]

\* No service call has been made.
NoCall == [op |-> "none", n |-> 0]

NoRun ==
  [pc |-> "none", rawMatrixId |-> 0, action |-> "", inserted |-> 0,
   failed |-> {}, thrown |-> ""]

\* processTrack returns (lines 65, 82, 104, 134, 257) ...
Returned(j, action, inserted) ==
  [pc |-> "done", rawMatrixId |-> j.rawMatrixId, action |-> action,
   inserted |-> inserted, failed |-> j.failed, thrown |-> ""]

\* ... or rethrows what it caught (line 267).
Thrown(j, op, what) ==
  [pc |-> "fault", rawMatrixId |-> j.rawMatrixId, action |-> "",
   inserted |-> 0, failed |-> j.failed \cup {op}, thrown |-> what]

\* Bags of runs: the worker's slots are interchangeable.
Put(bag, j) ==
  [x \in DOMAIN bag \cup {j} |->
     IF x \in DOMAIN bag THEN (IF x = j THEN bag[x] + 1 ELSE bag[x]) ELSE 1]

Take(bag, j) ==
  [x \in {y \in DOMAIN bag : y # j \/ bag[y] > 1} |->
     IF x = j THEN bag[x] - 1 ELSE bag[x]]

RECURSIVE Size(_)
Size(bag) ==
  IF DOMAIN bag = {} THEN 0
  ELSE LET j == CHOOSE x \in DOMAIN bag : TRUE
       IN bag[j] + Size([x \in DOMAIN bag \ {j} |-> bag[x]])

Running == Size(inflight)

\* The worker process starts on whatever the collection holds: nothing, or
\* the first point of device 1 saved by an earlier run of the program.
FirstPointHistory ==
  [branch |-> "first", pred |-> 0, hadState |-> FALSE,
   smoothed |-> Coord(0, 0), matcher |-> "none", matchedTail |-> None,
   contextLen |-> 0, stops |-> 0]

InitialStores ==
  { << >>,
    << saveProcessedMatrix(DeviceMatrix[1], None, << >>,
                           DeviceMatrix[1].timestamp) >> }

Init ==
  /\ processed \in InitialStores
  /\ history = [i \in 1..Len(processed) |-> FirstPointHistory]
  /\ states = << >>
  /\ inflight = << >>
  /\ last = NoRun
  /\ deliveries = 0
  /\ now = 300
  /\ queue = << >>
  /\ phase = "running"
  /\ call = NoCall

\* (the deviceId filter left out of the queries)
OfDevice_AnyDevice(deviceId) == 1..Len(processed)

\* Documents of a device, as indices into the collection.
OfDevice(deviceId) ==
  {i \in 1..Len(processed) : processed[i].deviceId = deviceId}

\* findOne({deviceId}).sort({timestamp: -1}): any document of the device
\* with the greatest timestamp (ties are broken by the store).
Latest(deviceId) ==
  {i \in OfDevice(deviceId) :
     \A j \in OfDevice(deviceId) : processed[j].timestamp <= processed[i].timestamp}

\* find({deviceId}).sort({timestamp: -1}).limit(limit): the sequences of
\* indices the store may return.
IsRecent(seq, deviceId, limit) ==
  /\ Len(seq) = IF Cardinality(OfDevice(deviceId)) < limit
                  THEN Cardinality(OfDevice(deviceId)) ELSE limit
  /\ \A i \in 1..Len(seq) : seq[i] \in OfDevice(deviceId)
  /\ \A i, j \in 1..Len(seq) : i < j =>
        /\ seq[i] # seq[j]
        /\ processed[seq[i]].timestamp >= processed[seq[j]].timestamp
  /\ \A i \in 1..Len(seq) : \A k \in OfDevice(deviceId) :
        (\A j \in 1..Len(seq) : seq[j] # k) =>
           processed[k].timestamp <= processed[seq[i]].timestamp

RECURSIVE Perms(_)
Perms(S) ==
  IF S = {} THEN { << >> }
  ELSE UNION {{ << x >> \o p : p \in Perms(S \ {x}) } : x \in S}

getRecentPoints(deviceId, limit) ==
  {seq \in UNION {Perms(T) : T \in SUBSET OfDevice(deviceId)} :
     IsRecent(seq, deviceId, limit)}

\* How the matcher's answer is to be called (bookkeeping only): "error" is
\* an axios rejection, "unusable" a body without a usable matching (a code
\* other than Ok, no tracepoints, not one tracepoint per point), else "ok".
MatcherOutcome(points, response) ==
  IF response.kind = "error" THEN "error"
  ELSE IF response.code # "Ok" \/ ~response.hasTracepoints
          \/ Len(response.tracepoints) # Len(points) THEN "unusable"
  ELSE "ok"

MatcherFailures == {"error", "unusable"}

\* ----------------------------------------------------------------- actions
\* A run moves on to its next await ...
Step(j, next) ==
  /\ inflight' = Put(Take(inflight, j), next)
  /\ UNCHANGED last

\* ... or ends.
Finish(j, result) ==
  /\ inflight' = Take(inflight, j)
  /\ last' = result

\* processTrack is called and loads the raw document (lines 42-50).
\* DeviceMatrix is never written, so findById commutes with every step of
\* every other run and is taken together with the call.
Load(id) ==
  \/ /\ last' = Thrown(NewJob(id), "findById", "storage")
     /\ UNCHANGED inflight
  \/ /\ id \notin RawIds
     /\ last' = Thrown(NewJob(id), "rawMatrix", "not_found")
     /\ UNCHANGED inflight
  \/ /\ id \in RawIds
     /\ inflight' = Put(inflight, NewJob(id))
     /\ UNCHANGED last

\* A job is handed to processTrack, whatever the queue holds (at-least-once:
\* any id, again).
Deliver(id) ==
  /\ Running < NumWorkers
  /\ deliveries < MaxDeliveries
  /\ deliveries' = deliveries + 1
  /\ Load(id)
  /\ UNCHANGED << processed, history, states, now >>

\* Lines 68-147: the sample is classified against the latest processed
\* document; a move sample is smoothed before the next await.
Classify(j, rawMatrix, lastProcessed) ==
  LET timeDiffSeconds == rawMatrix.timestamp - processed[lastProcessed].timestamp
      lastProcessedAge == now - processed[lastProcessed].timestamp
      distance == calculateDistance(processed[lastProcessed].coordinates,
                                    rawMatrix.coordinates)
      seen == [j EXCEPT !.lastProcessed = lastProcessed,
                        !.stopCountRead = StopCountOf(processed[lastProcessed]),
                        !.timeDiffSeconds = timeDiffSeconds]
  IN IF IsOutOfOrder(timeDiffSeconds)
       THEN [seen EXCEPT !.pc = "skip"]
     ELSE IF IsStale(lastProcessedAge)
       THEN [seen EXCEPT !.pc = "saveStale",
                         !.lastProcessedAge = lastProcessedAge]
     \* point() of @turf/helpers throws on a coordinate that is no number
     ELSE IF ~ValidCoord(processed[lastProcessed].coordinates)
             \/ ~ValidCoord(rawMatrix.coordinates)
       THEN [seen EXCEPT !.pc = "invalid"]
     ELSE IF IsStop(distance)
       THEN [seen EXCEPT !.pc = "updateStop",
                         !.lastProcessedAge = lastProcessedAge,
                         !.distance = distance]
     ELSE [seen EXCEPT !.pc = "getRecentPoints",
                       !.lastProcessedAge = lastProcessedAge,
                       !.distance = distance,
                       !.hadState = rawMatrix.deviceId \in DOMAIN states,
                       !.kalmanSmoothedCoordinates =
                          filter(states, rawMatrix.deviceId,
                                 rawMatrix.coordinates)]

\* Lines 53-58 and what follows up to the next await.
FindOne(j) ==
  /\ j.pc = "findOne"
  /\ LET rawMatrix == DeviceMatrix[j.rawMatrixId]
     IN \/ /\ Finish(j, Thrown(j, "findOne", "storage"))
           /\ UNCHANGED states
        \/ /\ Latest(rawMatrix.deviceId) = {}
           /\ Step(j, [j EXCEPT !.pc = "saveFirst"])
           /\ UNCHANGED states
        \/ \E lastProcessed \in Latest(rawMatrix.deviceId) :
             LET next == Classify(j, rawMatrix, lastProcessed)
             IN /\ IF next.pc = "skip"
                     THEN Finish(j, Returned(j, "skipped_out_of_order", 0))
                     ELSE IF next.pc = "invalid"
                       THEN Finish(j, Thrown(j, "calculateDistance", "invalid"))
                       ELSE Step(j, next)
                /\ states' =
                     IF next.pc = "saveStale"
                       THEN resetDevice(states, rawMatrix.deviceId)
                     ELSE IF next.pc = "getRecentPoints"
                       THEN filterStates(states, rawMatrix.deviceId,
                                         rawMatrix.coordinates)
                       ELSE states
  /\ UNCHANGED << processed, history, deliveries, now >>

\* processedMatrix.save() of one of the three emitting paths.
Insert(j, doc, branch, action) ==
  \* mongoose does not cast NaN to a Number: such a save is rejected
  /\ ValidCoord(doc.coordinates)
  /\ processed' = Append(processed, doc)
  /\ history' = Append(history,
       [branch |-> branch, pred |-> j.lastProcessed, hadState |-> j.hadState,
        smoothed |-> j.kalmanSmoothedCoordinates, matcher |-> j.matcher,
        matchedTail |-> j.matchedTail,
        contextLen |-> Len(j.pointsForMatching), stops |-> 0])
  /\ Finish(j, Returned(j, action, Len(processed) + 1))

SaveFails(j) ==
  /\ Finish(j, Thrown(j, "save", "storage"))
  /\ UNCHANGED << processed, history >>

\* Line 63.
SaveFirst(j) ==
  /\ j.pc = "saveFirst"
  /\ \/ Insert(j, saveProcessedMatrix(DeviceMatrix[j.rawMatrixId],
                                      None, << >>, now),
               "first", "saved_first_point")
     \/ SaveFails(j)
  /\ UNCHANGED << states, deliveries, now >>

\* Lines 94-97.
SaveStale(j) ==
  /\ j.pc = "saveStale"
  /\ \/ Insert(j, saveProcessedMatrix(DeviceMatrix[j.rawMatrixId], None,
                    [lastProcessedAge |-> j.lastProcessedAge,
                     stalePreviousPoint |-> TRUE], now),
               "stale", "saved_after_stale")
     \/ SaveFails(j)
  /\ UNCHANGED << states, deliveries, now >>

\* Lines 122-127: findByIdAndUpdate with the stop count read at line 53.
UpdateStop(j) ==
  /\ j.pc = "updateStop"
  /\ \/ /\ processed' = [processed EXCEPT ![j.lastProcessed] =
              StopUpdate(@, DeviceMatrix[j.rawMatrixId].timestamp,
                         j.stopCountRead)]
        /\ history' = [history EXCEPT ![j.lastProcessed].stops = @ + 1]
        /\ Finish(j, Returned(j, "stop_detected", 0))
     \/ /\ Finish(j, Thrown(j, "findByIdAndUpdate", "storage"))
        /\ UNCHANGED << processed, history >>
  /\ UNCHANGED << states, deliveries, now >>

\* Lines 162-185 and 218-225: the trailing context is read inside the try
\* of line 160, so a failed read lands in the catch of line 226.
GetRecentPoints(j) ==
  /\ j.pc = "getRecentPoints"
  /\ LET rawMatrix == DeviceMatrix[j.rawMatrixId]
         smoothed == j.kalmanSmoothedCoordinates
     IN \/ Step(j, [j EXCEPT !.pc = "saveMove",
                             !.failed = @ \cup {"getRecentPoints"},
                             !.finalCoordinates = smoothed,
                             !.processingMethod = "kalman_fallback"])
        \/ \E recent \in getRecentPoints(rawMatrix.deviceId,
                                         OSRM_CONTEXT_POINTS - 1) :
             LET points == PointsForMatching(
                             [i \in 1..Len(recent) |-> processed[recent[i]]],
                             smoothed, rawMatrix)
             IN Step(j, [j EXCEPT !.pointsForMatching = points,
                            !.pc = IF Len(points) >= 3
                                     THEN "matchPath" ELSE "saveMove",
                            !.finalCoordinates = smoothed,
                            !.processingMethod = "kalman"])
  /\ UNCHANGED << processed, history, states, deliveries, now >>

\* Lines 190-234: the matcher answers (or fails) and the result is chosen.
\* An error that got past the catch of line 226 would be rethrown by the
\* catch of line 265.
MatchPath(j) ==
  /\ j.pc = "matchPath"
  /\ \E response \in OsrmResponses(j.pointsForMatching) :
       LET matchedPoints == matchPath(j.pointsForMatching, response)
           final == SelectFinal(matchedPoints, j.kalmanSmoothedCoordinates)
           outcome == MatcherOutcome(j.pointsForMatching, response)
       IN IF final.processingMethod = "rethrown"
            THEN Finish(j, Thrown(j, "matchPath", "matcher"))
            ELSE Step(j, [j EXCEPT
                   !.pc = "saveMove",
                   !.matcher = outcome,
                   !.matchedTail = IF Len(matchedPoints) = 0 THEN None
                                   ELSE Some(matchedPoints[Len(matchedPoints)]),
                   !.finalCoordinates = final.finalCoordinates,
                   !.processingMethod = final.processingMethod,
                   !.matchingConfidence = final.matchingConfidence])
  /\ UNCHANGED << processed, history, states, deliveries, now >>

\* Lines 237-243.
SaveMove(j) ==
  /\ j.pc = "saveMove"
  /\ \/ Insert(j, saveProcessedMatrix(DeviceMatrix[j.rawMatrixId],
                    Some(j.finalCoordinates),
                    [distance |-> j.distance,
                     timeDiffSeconds |-> j.timeDiffSeconds,
                     speed |-> SpeedOf(j.distance, j.timeDiffSeconds),
                     processingMethod |-> j.processingMethod,
                     matchingConfidence |-> j.matchingConfidence], now),
               "move", "processed_and_saved")
     \/ SaveFails(j)
  /\ UNCHANGED << states, deliveries, now >>

\* Time passes.
Tick ==
  /\ \E t \in ClockValues : t > now /\ now' = t
  /\ UNCHANGED << processed, history, states, inflight, last, deliveries >>

\* The worker process is restarted between jobs: the in-memory Kalman
\* states are lost.
Restart ==
  /\ Running = 0
  /\ DOMAIN states # {}
  /\ states' = << >>
  /\ UNCHANGED << processed, history, inflight, last, deliveries, now >>

\* The processor under any sequence of deliveries; the queue is left out.
Next ==
  \/ (\E id \in JobIds : Deliver(id)) /\ UNCHANGED << queue, phase, call >>
  \/ (\E j \in DOMAIN inflight : FindOne(j)) /\ UNCHANGED << queue, phase, call >>
  \/ (\E j \in DOMAIN inflight : SaveFirst(j)) /\ UNCHANGED << queue, phase, call >>
  \/ (\E j \in DOMAIN inflight : SaveStale(j)) /\ UNCHANGED << queue, phase, call >>
  \/ (\E j \in DOMAIN inflight : UpdateStop(j)) /\ UNCHANGED << queue, phase, call >>
  \/ (\E j \in DOMAIN inflight : GetRecentPoints(j)) /\ UNCHANGED << queue, phase, call >>
  \/ (\E j \in DOMAIN inflight : MatchPath(j)) /\ UNCHANGED << queue, phase, call >>
  \/ (\E j \in DOMAIN inflight : SaveMove(j)) /\ UNCHANGED << queue, phase, call >>
  \/ Tick /\ UNCHANGED << queue, phase, call >>
  \/ Restart /\ UNCHANGED << queue, phase, call >>

Spec == Init /\ [][Next]_vars

\* The processor when ingestion has also stored a sample whose latitude is
\* NaN: the jobs of the first point, of the sample 5 m from it and of the
\* invalid sample.
InvalidIds == {1, 3, 6}

InvalidNext ==
  \/ (\E id \in InvalidIds : Deliver(id)) /\ UNCHANGED << queue, phase, call >>
  \/ (\E j \in DOMAIN inflight : FindOne(j)) /\ UNCHANGED << queue, phase, call >>
  \/ (\E j \in DOMAIN inflight : SaveFirst(j)) /\ UNCHANGED << queue, phase, call >>
  \/ (\E j \in DOMAIN inflight : SaveStale(j)) /\ UNCHANGED << queue, phase, call >>
  \/ (\E j \in DOMAIN inflight : UpdateStop(j)) /\ UNCHANGED << queue, phase, call >>
  \/ (\E j \in DOMAIN inflight : GetRecentPoints(j)) /\ UNCHANGED << queue, phase, call >>
  \/ (\E j \in DOMAIN inflight : MatchPath(j)) /\ UNCHANGED << queue, phase, call >>
  \/ (\E j \in DOMAIN inflight : SaveMove(j)) /\ UNCHANGED << queue, phase, call >>
  \/ Tick /\ UNCHANGED << queue, phase, call >>
  \/ Restart /\ UNCHANGED << queue, phase, call >>

InvalidSpec == Init /\ [][InvalidNext]_vars

\* Two places on the grid, 5 m apart.
Places == {Coord(0, 0), Coord(3, 4)}

\* ------------------------------------------------- KalmanService, alone
\* Any MaxCalls calls of the service's three public methods, for the two
\* devices and measurements at two places.
Filter(deviceId, noisyPoint) ==
  /\ states' = filterStates(states, deviceId, noisyPoint)
  /\ call' = [op |-> "filter", n |-> call.n + 1, after |-> call.op,
              deviceId |-> deviceId, noisyPoint |-> noisyPoint,
              hadState |-> deviceId \in DOMAIN states,
              out |-> filter(states, deviceId, noisyPoint)]

ResetDevice(deviceId) ==
  /\ states' = resetDevice(states, deviceId)
  /\ call' = [op |-> "resetDevice", n |-> call.n + 1, after |-> call.op,
              deviceId |-> deviceId]

ClearAll ==
  /\ states' = clearAll(states)
  /\ call' = [op |-> "clearAll", n |-> call.n + 1, after |-> call.op]

KalmanNext ==
  /\ call.n < MaxCalls
  /\ \/ \E d \in DeviceIds, z \in Places : Filter(d, z)
     \/ \E d \in DeviceIds : ResetDevice(d)
     \/ ClearAll
  /\ UNCHANGED << processed, history, inflight, last, deliveries, now,
                  queue, phase >>

KalmanSpec == Init /\ [][KalmanNext]_vars

\* --------------------------------------------------- OsrmService, alone
\* The lists matchPath is called with: up to MaxPoints points, each one of
\* the two places, 30 s apart.
RECURSIVE PointListsOf(_)
PointListsOf(n) ==
  IF n = 0 THEN { << >> }
  ELSE {Append(l, MatchPoint(c.latitude, c.longitude, 30 * (n - 1), << >>)) :
          l \in PointListsOf(n - 1), c \in Places}

PointLists == UNION {PointListsOf(n) : n \in 0..MaxPoints}

\* matchPath up to its await (lines 108-155): fewer than 3 points are
\* returned at once, otherwise the request is sent.
MatchPathCall(points) ==
  /\ call.op # "matchPath.await"
  /\ call' = IF Len(points) < 3
               THEN [op |-> "matchPath", points |-> points,
                     requested |-> FALSE,
                     out |-> matchPath(points, NoCall)]
               ELSE [op |-> "matchPath.await", points |-> points]
  /\ UNCHANGED << processed, history, states, inflight, last, deliveries,
                  now, queue, phase >>

\* matchPath from the answer on (lines 157-239).
MatchPathAnswer(response) ==
  /\ call.op = "matchPath.await"
  /\ call' = [op |-> "matchPath", points |-> call.points, requested |-> TRUE,
              response |-> response, out |-> matchPath(call.points, response)]
  /\ UNCHANGED << processed, history, states, inflight, last, deliveries,
                  now, queue, phase >>

MatchNext ==
  \/ \E points \in PointLists : MatchPathCall(points)
  \/ /\ call.op = "matchPath.await"
     /\ \E response \in OsrmResponses(call.points) : MatchPathAnswer(response)

MatchSpec == Init /\ [][MatchNext]_vars

\* ------------------------------------------------------------ QueueService
\* BullMQ keeps its jobs in Redis under their job ids, and QueueService
\* passes the raw sample id as the job id (opts.jobId of lines 298 and 315).
\* (the jobId option left out: BullMQ numbers the jobs itself)
JobIdOf_Auto(rawMatrixId) == 100 + Cardinality(DOMAIN queue)

JobIdOf(rawMatrixId) == rawMatrixId

\* A job as Queue.add stores it.  attemptsMade is BullMQ's counter of the
\* attempts that ended.
NewQueueJob(rawMatrixId) ==
  [rawMatrixId |-> rawMatrixId, state |-> "waiting", attemptsMade |-> 0]

\* The jobs Redis holds: waiting, delayed, active, or retained as completed
\* or failed.
InQueue(q) == DOMAIN q

\* Queue.add with opts.jobId: an id the queue holds is not added again.
Added(q, rawMatrixId) ==
  LET id == JobIdOf(rawMatrixId)
  IN [k \in InQueue(q) \cup {id} |->
        IF k \in InQueue(q)
          THEN q[k]
          ELSE NewQueueJob(rawMatrixId)]

\* The raw sample ids ingestion enqueues: one that has no raw document, the
\* first point of device 1 and its sample of 60 s later.
QueueIds == {UnknownRawId, 1, 4}

\* The lists addBulkJobs is called with.
BulkLists == {<< a, b >> : a \in QueueIds, b \in QueueIds \ {UnknownRawId}}

\* (the attempt count compared inclusively: a fourth attempt)
Settle_OneMore(q, k, ok) ==
  [q EXCEPT ![k].attemptsMade = @ + 1,
            ![k].state = IF ok THEN "completed"
                         ELSE IF q[k].attemptsMade + 1 <= attempts
                           THEN "delayed" ELSE "failed"]

\* defaultJobOptions (lines 255-268): a job that threw is retried until it
\* has been attempted `attempts` times, then it is failed.
Settle(q, k, ok) ==
  [q EXCEPT ![k].attemptsMade = @ + 1,
            ![k].state = IF ok THEN "completed"
                         ELSE IF q[k].attemptsMade + 1 < attempts
                           THEN "delayed" ELSE "failed"]

\* The active job a run belongs to.
ActiveJob(rawMatrixId) ==
  CHOOSE k \in InQueue(queue) :
     queue[k].state = "active" /\ queue[k].rawMatrixId = rawMatrixId

\* The queue learns how a step of a run ended, if it ended.
Settled(j) ==
  queue' = IF Size(inflight') < Size(inflight)
             THEN Settle(queue, ActiveJob(j.rawMatrixId), last'.pc = "done")
             ELSE queue

\* QueueService.addJob (lines 293-304).
AddJob(rawMatrixId) ==
  /\ queue' = Added(queue, rawMatrixId)
  /\ Cardinality(InQueue(queue')) <= MaxJobs
  /\ UNCHANGED << processed, history, states, inflight, last, deliveries, now >>

\* QueueService.addBulkJobs (lines 310-321).
AddBulkJobs(rawMatrixIds) ==
  /\ queue' = Added(Added(queue, rawMatrixIds[1]), rawMatrixIds[2])
  /\ Cardinality(InQueue(queue')) <= MaxJobs
  /\ UNCHANGED << processed, history, states, inflight, last, deliveries, now >>

\* The worker takes a waiting job, or a delayed one whose backoff is over
\* (concurrency of line 325), and calls processTrack.  deliveries counts the
\* calls that found their raw document.
Activate(k) ==
  /\ queue[k].state \in {"waiting", "delayed"}
  /\ Running < NumWorkers
  /\ Load(queue[k].rawMatrixId)
  /\ LET started == [queue EXCEPT ![k].state = "active"]
     IN IF inflight' = inflight
          THEN /\ queue' = Settle(started, k, FALSE)
               /\ UNCHANGED deliveries
          ELSE /\ queue' = started
               /\ deliveries < MaxRuns
               /\ deliveries' = deliveries + 1
  /\ UNCHANGED << processed, history, states, now >>

\* removeOnComplete and removeOnFail (lines 261-267): a finished job leaves
\* the queue once enough newer ones, or 24 hours, have come after it.
Evict(k) ==
  /\ queue[k].state \in {"completed", "failed"}
  /\ queue' = [x \in InQueue(queue) \ {k} |-> queue[x]]
  /\ UNCHANGED << processed, history, states, inflight, last, deliveries, now >>

\* The queue's worker starts on an empty collection, on the first point of
\* device 1, or on that point and the move to sample 3 that a run without a
\* filter state and with two context points saved (at its own timestamp).
MovedStore ==
  << saveProcessedMatrix(DeviceMatrix[1], None, << >>,
                         DeviceMatrix[1].timestamp),
     saveProcessedMatrix(DeviceMatrix[3], Some(DeviceMatrix[3].coordinates),
       [distance |-> calculateDistance(DeviceMatrix[1].coordinates,
                                       DeviceMatrix[3].coordinates),
        timeDiffSeconds |-> DeviceMatrix[3].timestamp - DeviceMatrix[1].timestamp,
        speed |-> SpeedOf(calculateDistance(DeviceMatrix[1].coordinates,
                                            DeviceMatrix[3].coordinates),
                          DeviceMatrix[3].timestamp - DeviceMatrix[1].timestamp),
        processingMethod |-> NewJob(3).processingMethod,
        matchingConfidence |-> NewJob(3).matchingConfidence],
       DeviceMatrix[3].timestamp) >>

MovedHistory ==
  << FirstPointHistory,
     [branch |-> "move", pred |-> 1, hadState |-> FALSE,
      smoothed |-> DeviceMatrix[3].coordinates, matcher |-> "none",
      matchedTail |-> None, contextLen |-> 2, stops |-> 0] >>

QueueInit ==
  \/ Init
  \/ /\ processed = MovedStore
     /\ history = MovedHistory
     /\ states = << >>
     /\ inflight = << >>
     /\ last = NoRun
     /\ deliveries = 0
     /\ now = 300
     /\ queue = << >>
     /\ phase = "running"
     /\ call = NoCall

\* The processor fed by the queue.
QueueNext ==
  \/ (\E id \in QueueIds : AddJob(id)) /\ UNCHANGED << phase, call >>
  \/ (\E ids \in BulkLists : AddBulkJobs(ids)) /\ UNCHANGED << phase, call >>
  \/ (\E k \in InQueue(queue) : Activate(k)) /\ UNCHANGED << phase, call >>
  \/ (\E k \in InQueue(queue) : Evict(k)) /\ UNCHANGED << phase, call >>
  \/ (\E j \in DOMAIN inflight : FindOne(j) /\ Settled(j)) /\ UNCHANGED << phase, call >>
  \/ (\E j \in DOMAIN inflight : SaveFirst(j) /\ Settled(j)) /\ UNCHANGED << phase, call >>
  \/ (\E j \in DOMAIN inflight : SaveStale(j) /\ Settled(j)) /\ UNCHANGED << phase, call >>
  \/ (\E j \in DOMAIN inflight : UpdateStop(j) /\ Settled(j)) /\ UNCHANGED << phase, call >>
  \/ (\E j \in DOMAIN inflight : GetRecentPoints(j) /\ Settled(j)) /\ UNCHANGED << phase, call >>
  \/ (\E j \in DOMAIN inflight : MatchPath(j) /\ Settled(j)) /\ UNCHANGED << phase, call >>
  \/ (\E j \in DOMAIN inflight : SaveMove(j) /\ Settled(j)) /\ UNCHANGED << phase, call >>
  \/ Tick /\ UNCHANGED << queue, phase, call >>

QueueSpec == QueueInit /\ [][QueueNext]_vars

\* A step that awaits the store.  MongoDB answers or fails every operation
\* (the driver's server selection and socket timeouts), and the event loop
\* resumes the run.  The matcher call of line 155 carries no timeout, so
\* nothing makes MatchPath happen.
StorageStep ==
  /\ \E j \in DOMAIN inflight :
        \/ FindOne(j)
        \/ SaveFirst(j)
        \/ SaveStale(j)
        \/ UpdateStop(j)
        \/ GetRecentPoints(j)
        \/ SaveMove(j)
  /\ UNCHANGED << queue, phase, call >>

LiveSpec == Spec /\ WF_vars(StorageStep)

\* ------------------------------------------------- the worker's shutdown
\* startWorker() (lines 388-400): the handlers of SIGTERM and SIGINT are the
\* same three statements,
\*   await worker.close(); await mongoose.connection.close(); process.exit(0)
\* and phase is the statement the first handler has reached.  Worker.close()
\* is BullMQ's close without force: the worker fetches no further job and
\* the promise settles when the jobs being processed have finished.
Signals == {"SIGTERM", "SIGINT"}

\* (close(true): the promise settles without waiting for the jobs)
whenCurrentJobsFinished_Force(bag) == TRUE

whenCurrentJobsFinished(bag) == DOMAIN bag = {}

\* The samples delivered while the worker shuts down.
ShutdownIds == {1, 2, 4}

\* The worker takes a job only while it is not closing.
Fetch(id) ==
  /\ phase = "running"
  /\ Deliver(id)
  /\ UNCHANGED << queue, phase, call >>

\* The signal arrives; call keeps which one, and how many jobs were being
\* processed at that moment.
Signal(sig) ==
  /\ phase = "running"
  /\ phase' = "closing"
  /\ call' = [op |-> sig, n |-> Running]
  /\ UNCHANGED << processed, history, states, inflight, last, deliveries,
                  now, queue >>

\* await worker.close() settles.
WorkerClosed ==
  /\ phase = "closing"
  /\ whenCurrentJobsFinished(inflight)
  /\ phase' = "closed"
  /\ UNCHANGED << processed, history, states, inflight, last, deliveries,
                  now, queue, call >>

\* await mongoose.connection.close()
ConnectionClosed ==
  /\ phase = "closed"
  /\ phase' = "disconnected"
  /\ UNCHANGED << processed, history, states, inflight, last, deliveries,
                  now, queue, call >>

\* process.exit(0)
Exit ==
  /\ phase = "disconnected"
  /\ phase' = "exited"
  /\ UNCHANGED << processed, history, states, inflight, last, deliveries,
                  now, queue, call >>

ShutdownNext ==
  \/ \E id \in ShutdownIds : Fetch(id)
  \/ (\E j \in DOMAIN inflight : FindOne(j)) /\ UNCHANGED << queue, phase, call >>
  \/ (\E j \in DOMAIN inflight : SaveFirst(j)) /\ UNCHANGED << queue, phase, call >>
  \/ (\E j \in DOMAIN inflight : SaveStale(j)) /\ UNCHANGED << queue, phase, call >>
  \/ (\E j \in DOMAIN inflight : UpdateStop(j)) /\ UNCHANGED << queue, phase, call >>
  \/ (\E j \in DOMAIN inflight : GetRecentPoints(j)) /\ UNCHANGED << queue, phase, call >>
  \/ (\E j \in DOMAIN inflight : MatchPath(j)) /\ UNCHANGED << queue, phase, call >>
  \/ (\E j \in DOMAIN inflight : SaveMove(j)) /\ UNCHANGED << queue, phase, call >>
  \/ Tick /\ UNCHANGED << queue, phase, call >>
  \/ \E sig \in Signals : Signal(sig)
  \/ WorkerClosed
  \/ ConnectionClosed
  \/ Exit

ShutdownSpec == Init /\ [][ShutdownNext]_vars

\* ------------------------------------------- samples out of their order
\* The processor fed with three samples of device 1 that reach it in any
\* order: two of the same instant 9 m apart (2 and 7) and a later one (8)
\* within 5 m of the first sample.
ArrivalIds == {2, 7, 8}

ArrivalNext ==
  \/ (\E id \in ArrivalIds : Deliver(id)) /\ UNCHANGED << queue, phase, call >>
  \/ (\E j \in DOMAIN inflight : FindOne(j)) /\ UNCHANGED << queue, phase, call >>
  \/ (\E j \in DOMAIN inflight : SaveFirst(j)) /\ UNCHANGED << queue, phase, call >>
  \/ (\E j \in DOMAIN inflight : SaveStale(j)) /\ UNCHANGED << queue, phase, call >>
  \/ (\E j \in DOMAIN inflight : UpdateStop(j)) /\ UNCHANGED << queue, phase, call >>
  \/ (\E j \in DOMAIN inflight : GetRecentPoints(j)) /\ UNCHANGED << queue, phase, call >>
  \/ (\E j \in DOMAIN inflight : MatchPath(j)) /\ UNCHANGED << queue, phase, call >>
  \/ (\E j \in DOMAIN inflight : SaveMove(j)) /\ UNCHANGED << queue, phase, call >>
  \/ Tick /\ UNCHANGED << queue, phase, call >>
  \/ Restart /\ UNCHANGED << queue, phase, call >>

ArrivalSpec == Init /\ [][ArrivalNext]_vars

\* --------------------------------------------- one job of a device at a time
\* The processor when the jobs of a device do not overlap: a job is handed
\* to processTrack only when no run of its device is in flight.
SerialDeliver(id) ==
  /\ \A j \in DOMAIN inflight :
        id \in RawIds =>
          DeviceMatrix[j.rawMatrixId].deviceId # DeviceMatrix[id].deviceId
  /\ Deliver(id)

SerialNext ==
  \/ (\E id \in JobIds : SerialDeliver(id)) /\ UNCHANGED << queue, phase, call >>
  \/ (\E j \in DOMAIN inflight : FindOne(j)) /\ UNCHANGED << queue, phase, call >>
  \/ (\E j \in DOMAIN inflight : SaveFirst(j)) /\ UNCHANGED << queue, phase, call >>
  \/ (\E j \in DOMAIN inflight : SaveStale(j)) /\ UNCHANGED << queue, phase, call >>
  \/ (\E j \in DOMAIN inflight : UpdateStop(j)) /\ UNCHANGED << queue, phase, call >>
  \/ (\E j \in DOMAIN inflight : GetRecentPoints(j)) /\ UNCHANGED << queue, phase, call >>
  \/ (\E j \in DOMAIN inflight : MatchPath(j)) /\ UNCHANGED << queue, phase, call >>
  \/ (\E j \in DOMAIN inflight : SaveMove(j)) /\ UNCHANGED << queue, phase, call >>
  \/ Tick /\ UNCHANGED << queue, phase, call >>
  \/ Restart /\ UNCHANGED << queue, phase, call >>

SerialSpec == Init /\ [][SerialNext]_vars

TypeOK ==
  /\ Len(history) = Len(processed)
  /\ deliveries \in 0..MaxDeliveries
  /\ now \in ClockValues
  /\ Running <= NumWorkers
  /\ \A j \in DOMAIN inflight : j.pc \in
       {"findOne", "saveFirst", "saveStale", "updateStop",
        "getRecentPoints", "matchPath", "saveMove"}

\* ------------------------------------------------------------------ claims
RawOf(i) == DeviceMatrix[processed[i].metadata.rawMatrixId]

MethodOf(i) ==
  IF "processingMethod" \in DOMAIN processed[i].metadata
    THEN processed[i].metadata.processingMethod ELSE "absent"

\* C1: at most one processed sample carries a given raw sample id, whatever
\* the deliveries (replays, concurrent runs) have been.
C1_OnePerRawSample ==
  \A i, k \in 1..Len(processed) :
     i # k => processed[i].metadata.rawMatrixId # processed[k].metadata.rawMatrixId

\* Order of a device's processed samples by (timestamp, insertion).
Before(i, k) ==
  \/ processed[i].timestamp < processed[k].timestamp
  \/ processed[i].timestamp = processed[k].timestamp /\ i < k

Adjacent(i, k) ==
  /\ processed[i].deviceId = processed[k].deviceId
  /\ Before(i, k)
  /\ ~ \E m \in OfDevice(processed[i].deviceId) : Before(i, m) /\ Before(m, k)

\* C2 as stated: samples of a device that are adjacent in timestamp order
\* are in non-decreasing timestamp order and lie at least STOP_THRESHOLD
\* apart by their stored coordinates.
C2_AdjacentStoredApart ==
  \A i, k \in 1..Len(processed) :
     Adjacent(i, k) =>
       /\ processed[k].timestamp >= processed[i].timestamp
       /\ calculateDistance(processed[i].coordinates, processed[k].coordinates)
            >= STOP_THRESHOLD_METERS

\* C2 amended: samples adjacent in timestamp order are in non-decreasing
\* timestamp order, and every sample inserted on the move path is not older
\* than the latest sample its run read and its raw coordinates lie at
\* least STOP_THRESHOLD from that sample's stored coordinates, which is the
\* distance its metadata records.
C2_MoveRawApart ==
  /\ \A i, k \in 1..Len(processed) :
        Adjacent(i, k) => processed[k].timestamp >= processed[i].timestamp
  /\ \A i \in 1..Len(processed) :
        history[i].branch = "move" =>
          /\ history[i].pred \in OfDevice(processed[i].deviceId) \ {i}
          /\ processed[i].timestamp >= processed[history[i].pred].timestamp
          /\ processed[i].metadata.distance >= STOP_THRESHOLD_METERS
          /\ processed[i].metadata.distance =
               calculateDistance(processed[history[i].pred].coordinates,
                                 RawOf(i).coordinates)

\* A move sample is stored closer than STOP_THRESHOLD to the sample it was
\* measured against.
C2_Witness ==
  \E i \in 1..Len(processed) :
     /\ history[i].branch = "move"
     /\ processed[i].metadata.distance >= STOP_THRESHOLD_METERS
     /\ calculateDistance(processed[history[i].pred].coordinates,
                          processed[i].coordinates) < STOP_THRESHOLD_METERS

\* C3 as stated: no sample is inserted by a run whose raw coordinates lie
\* less than STOP_THRESHOLD from the latest processed sample it read.
C3_NearNeverInserts ==
  \A i \in 1..Len(processed) :
     history[i].pred # 0 =>
       calculateDistance(processed[history[i].pred].coordinates,
                         RawOf(i).coordinates) >= STOP_THRESHOLD_METERS

\* The distance a classified run measured.
MeasuredDistance(j) ==
  calculateDistance(processed[j.lastProcessed].coordinates,
                    DeviceMatrix[j.rawMatrixId].coordinates)

\* A run past the out-of-order and stale tests is on the stop path exactly
\* when it measured less than STOP_THRESHOLD, else on the move path.
C3_Classified ==
  \A j \in DOMAIN inflight :
     (j.lastProcessed # 0 /\ j.pc # "saveStale") =>
       LET d == MeasuredDistance(j)
       IN /\ j.timeDiffSeconds >= 0
          /\ j.lastProcessedAge <= MAX_LAST_LOCATION_AGE_SECONDS
          /\ (j.pc = "updateStop") <=> (d < STOP_THRESHOLD_METERS)
          /\ (j.pc \in {"getRecentPoints", "matchPath", "saveMove"})
               <=> (d >= STOP_THRESHOLD_METERS)

\* The step that completes a stop-path run inserts nothing, leaves the
\* Kalman states alone and changes only lastSeen and stopCount of the
\* sample the run read.
C3_StopStep ==
  \A j \in DOMAIN inflight :
     (/\ j.pc = "updateStop"
      /\ last' = Returned(j, "stop_detected", 0)
      /\ inflight' = Take(inflight, j)) =>
       /\ states' = states
       /\ Len(processed') = Len(processed)
       /\ \A i \in 1..Len(processed) :
             i # j.lastProcessed => processed'[i] = processed[i]
       /\ LET old == processed[j.lastProcessed]
              new == processed'[j.lastProcessed]
          IN /\ new.timestamp = old.timestamp
             /\ new.deviceId = old.deviceId
             /\ new.tripId = old.tripId
             /\ new.coordinates = old.coordinates
             /\ DOMAIN new.metadata =
                  DOMAIN old.metadata \cup {"lastSeen", "stopCount"}
             /\ \A f \in DOMAIN old.metadata \ {"lastSeen", "stopCount"} :
                   new.metadata[f] = old.metadata[f]
             /\ new.metadata.lastSeen = DeviceMatrix[j.rawMatrixId].timestamp

\* C3 amended: a run that passes the out-of-order and stale tests and
\* measures less than STOP_THRESHOLD to the latest processed sample it read
\* inserts nothing and only updates lastSeen and stopCount of that sample;
\* a distance of exactly STOP_THRESHOLD goes the move path.
C3_StopCoalesce == []C3_Classified /\ [][C3_StopStep]_vars

\* A stop has been coalesced and a sample exactly STOP_THRESHOLD away from
\* its predecessor has been inserted as a move.
C3_Witness ==
  /\ last.action = "stop_detected"
  /\ \E i \in 1..Len(processed) : history[i].stops >= 1
  /\ \E i \in 1..Len(processed) :
        /\ history[i].branch = "move"
        /\ processed[i].metadata.distance = STOP_THRESHOLD_METERS

\* C4: a failed matcher call (transport error, timeout, HTTP 5xx) for a
\* move sample with at least 3 context points gives a processed sample with
\* method kalman_fallback, confidence 0 and the Kalman-smoothed coordinates.
C4_MatcherErrorIsFallback ==
  \A i \in 1..Len(processed) :
     (/\ history[i].branch = "move"
      /\ history[i].matcher = "error"
      /\ history[i].contextLen >= 3) =>
       /\ MethodOf(i) = "kalman_fallback"
       /\ processed[i].metadata.matchingConfidence = 0
       /\ processed[i].coordinates = history[i].smoothed

\* C5: a run in which a storage operation failed (loading the raw sample,
\* reading the latest processed sample, reading the trailing context,
\* inserting, the stop update) ends in Fault, never in a completion.
C5_StorageFailureFaults ==
  last.pc = "done" => last.failed = {}

C7_FirstSample ==
  /\ \A j \in DOMAIN inflight : j.pc = "saveFirst" => j.lastProcessed = 0
  /\ \A i \in 1..Len(processed) :
        history[i].branch = "first" =>
          /\ processed[i].coordinates = RawOf(i).coordinates
          /\ MethodOf(i) = "absent"
          /\ "matchingConfidence" \notin DOMAIN processed[i].metadata
  /\ last.action = "saved_first_point" =>
        /\ last.inserted \in 1..Len(processed)
        /\ history[last.inserted].branch = "first"
        /\ processed[last.inserted].metadata.rawMatrixId = last.rawMatrixId

C7_FirstStep ==
  \A j \in DOMAIN inflight :
     (/\ j.pc = "saveFirst"
      /\ inflight' = Take(inflight, j)
      /\ last'.pc = "done") =>
       /\ last' = Returned(j, "saved_first_point", Len(processed) + 1)
       /\ Len(processed') = Len(processed) + 1
       /\ \A i \in 1..Len(processed) : processed'[i] = processed[i]
       /\ processed'[Len(processed')].metadata =
            Spread(DeviceMatrix[j.rawMatrixId].metadata,
                   [processedAt |-> now, rawMatrixId |-> j.rawMatrixId])

C8_MoveIsSmoothed ==
  \A i \in 1..Len(processed) :
     history[i].branch = "move" =>
        (history[i].hadState \/ MethodOf(i) = "osrm")

\* C9: a sample with method osrm has confidence >= OSRM_MIN_CONFIDENCE and
\* the matched tail's coordinates; a tail confidence of exactly the
\* threshold is accepted as osrm; a tail confidence below it gives method
\* kalman with the smoothed coordinates and the observed confidence.
C9_OsrmConfidence ==
  \A i \in 1..Len(processed) :
     history[i].branch = "move" =>
       /\ MethodOf(i) = "osrm" =>
            /\ processed[i].metadata.matchingConfidence >= OSRM_MIN_CONFIDENCE
            /\ history[i].matchedTail # None
            /\ processed[i].coordinates =
                 Coord(history[i].matchedTail[1].lat, history[i].matchedTail[1].lng)
            /\ processed[i].metadata.matchingConfidence =
                 history[i].matchedTail[1].confidence
       /\ history[i].matchedTail # None =>
            IF history[i].matchedTail[1].confidence >= OSRM_MIN_CONFIDENCE
              THEN MethodOf(i) = "osrm"
              ELSE /\ MethodOf(i) = "kalman"
                   /\ processed[i].coordinates = history[i].smoothed
                   /\ processed[i].metadata.matchingConfidence =
                        history[i].matchedTail[1].confidence

\* A sample matched with exactly the threshold confidence is stored as osrm.
C9_Witness ==
  \E i \in 1..Len(processed) :
     /\ MethodOf(i) = "osrm"
     /\ processed[i].metadata.matchingConfidence = OSRM_MIN_CONFIDENCE
     /\ processed[i].coordinates # history[i].smoothed

\* C10: the stopCount of a processed sample is the number of stop-coalesce
\* runs that have completed against it.
C10_StopCountCounts ==
  \A i \in 1..Len(processed) : StopCountOf(processed[i]) = history[i].stops

\* The device a run works for.
DeviceOf(j) == DeviceMatrix[j.rawMatrixId].deviceId

\* A classified run is not out of order, and the difference it computed is
\* the one between its raw sample and the sample it read.
C11_Classified ==
  \A j \in DOMAIN inflight :
     j.lastProcessed # 0 =>
       /\ j.timeDiffSeconds >= 0
       /\ j.timeDiffSeconds = DeviceMatrix[j.rawMatrixId].timestamp
                                - processed[j.lastProcessed].timestamp

\* The step that ends a run as skipped is taken against a strictly later
\* latest sample and writes nothing.
C11_SkipStep ==
  \A j \in DOMAIN inflight :
     (/\ j.pc = "findOne"
      /\ last'.action = "skipped_out_of_order"
      /\ last'.rawMatrixId = j.rawMatrixId
      /\ inflight' = Take(inflight, j)) =>
       /\ last' = Returned(j, "skipped_out_of_order", 0)
       /\ processed' = processed
       /\ states' = states
       /\ \E i \in Latest(DeviceOf(j)) :
             DeviceMatrix[j.rawMatrixId].timestamp < processed[i].timestamp

\* C11: a run whose raw timestamp is strictly earlier than that of the
\* latest processed sample of its device completes as skipped_out_of_order
\* and leaves the processed collection and the Kalman states unchanged
\* (the raw collection is never written); a run with a time difference of 0
\* is classified further.
C11_OutOfOrderSkips == []C11_Classified /\ [][C11_SkipStep]_vars

\* An out-of-order run has been skipped.
C11_Witness ==
  /\ last.action = "skipped_out_of_order"
  /\ last.pc = "done"
  /\ \E i \in 1..Len(processed) :
        /\ processed[i].deviceId = DeviceMatrix[last.rawMatrixId].deviceId
        /\ processed[i].timestamp > DeviceMatrix[last.rawMatrixId].timestamp

\* A classified run is on the stale path exactly when the age it computed
\* exceeds MAX_LAST_LOCATION_AGE_SECONDS; stale samples carry the raw
\* coordinates and the stale metadata.
C12_Classified ==
  /\ \A j \in DOMAIN inflight :
        j.lastProcessed # 0 =>
          ((j.pc = "saveStale")
             <=> (j.lastProcessedAge > MAX_LAST_LOCATION_AGE_SECONDS))
  /\ \A i \in 1..Len(processed) :
        history[i].branch = "stale" =>
          /\ processed[i].coordinates = RawOf(i).coordinates
          /\ processed[i].metadata.stalePreviousPoint
          /\ processed[i].metadata.lastProcessedAge
               > MAX_LAST_LOCATION_AGE_SECONDS
          /\ MethodOf(i) = "absent"

\* The classifying step computes the age from the wall clock, resets the
\* device's Kalman state exactly on the stale path, and the stale insert
\* adds one sample; no other step of a run drops a Kalman state.
C12_Step ==
  /\ \A j \in DOMAIN inflight : \A n \in DOMAIN inflight' :
        (/\ j.pc = "findOne"
         /\ n.pc \in {"saveStale", "updateStop", "getRecentPoints"}
         /\ inflight' = Put(Take(inflight, j), n)) =>
          LET age == now - processed[n.lastProcessed].timestamp
          IN /\ n.lastProcessedAge = age
             /\ (n.pc = "saveStale") <=> (age > MAX_LAST_LOCATION_AGE_SECONDS)
             /\ IF n.pc = "saveStale"
                  THEN /\ DOMAIN states' = DOMAIN states \ {DeviceOf(n)}
                       /\ \A d \in DOMAIN states' : states'[d] = states[d]
                  ELSE DOMAIN states \subseteq DOMAIN states'
  /\ \A d \in DOMAIN states \ DOMAIN states' :
        \/ states' = << >> /\ inflight' = inflight /\ inflight = << >>
        \/ \E n \in DOMAIN inflight' :
              /\ n.pc = "saveStale"
              /\ DeviceOf(n) = d
              /\ n \notin DOMAIN inflight \/ inflight'[n] > inflight[n]
  /\ \A j \in DOMAIN inflight :
        (/\ j.pc = "saveStale"
         /\ last'.pc = "done"
         /\ inflight' = Take(inflight, j)) =>
          /\ last' = Returned(j, "saved_after_stale", Len(processed) + 1)
          /\ Len(processed') = Len(processed) + 1
          /\ \A i \in 1..Len(processed) : processed'[i] = processed[i]
          /\ processed'[Len(processed')].coordinates =
               DeviceMatrix[j.rawMatrixId].coordinates

\* C12: a run that is not out of order is stale exactly when the wall clock
\* at classification minus the timestamp of the latest processed sample is
\* strictly greater than 300 s; a stale run discards the device's Kalman
\* state and inserts one sample with the raw coordinates, and no other run
\* resets a Kalman state.
C12_StaleGap == []C12_Classified /\ [][C12_Step]_vars

\* A stale sample has been inserted while another run, classified at an age
\* of exactly 300 s, is not stale.
C12_Witness ==
  /\ \E i \in 1..Len(processed) :
        /\ history[i].branch = "stale"
        /\ processed[i].metadata.lastProcessedAge
             = MAX_LAST_LOCATION_AGE_SECONDS + 1
  /\ \E j \in DOMAIN inflight :
        /\ j.lastProcessed # 0
        /\ j.pc # "saveStale"
        /\ j.lastProcessedAge = MAX_LAST_LOCATION_AGE_SECONDS

\* C13: every started run eventually ends (returns or throws), whatever the
\* matcher does, given that the store answers every operation.
C13_EveryRunEnds == (Running > 0) ~> (Running = 0)

\* C14: a job is attempted at most 3 times: a waiting job has made no
\* attempt, a delayed or active one fewer than 3, and a failed one exactly
\* 3; a job that is completed or failed is never run again and only leaves
\* the queue; the step in which an attempt faults, and every step of a run
\* before its last, leave the processed collection as it was.
C14_Attempts ==
  \A k \in InQueue(queue) :
     /\ queue[k].attemptsMade <= 3
     /\ queue[k].state = "waiting" => queue[k].attemptsMade = 0
     /\ queue[k].state \in {"delayed", "active"} => queue[k].attemptsMade < 3
     /\ queue[k].state = "delayed" => queue[k].attemptsMade >= 1
     /\ queue[k].state = "failed" => queue[k].attemptsMade = 3
     /\ queue[k].state = "completed" => queue[k].attemptsMade >= 1

C14_RetryStep ==
  /\ \A k \in InQueue(queue) :
        (queue[k].state \in {"completed", "failed"} /\ k \in InQueue(queue'))
           => queue'[k] = queue[k]
  /\ \A k \in InQueue(queue) \cap InQueue(queue') :
        (/\ queue'[k].attemptsMade = queue[k].attemptsMade + 1
         /\ queue'[k].state \in {"delayed", "failed"})
        => processed' = processed
  /\ (inflight' # inflight /\ Size(inflight') >= Size(inflight))
        => processed' = processed

C14_RetryThenFail == []C14_Attempts /\ [][C14_RetryStep]_vars

\* The job of the unknown raw sample id has faulted three times and is
\* failed, the collection being what the worker started on.
C14_Witness ==
  /\ UnknownRawId \in InQueue(queue)
  /\ queue[UnknownRawId].state = "failed"
  /\ queue[UnknownRawId].attemptsMade = 3
  /\ processed \in InitialStores \cup {MovedStore}

\* C15: at most one job per raw sample id is in the queue, whatever its
\* state, and enqueueing an id whose job the queue holds changes nothing.
C15_OneJobPerRawSample ==
  /\ \A a, b \in InQueue(queue) :
        queue[a].rawMatrixId = queue[b].rawMatrixId => a = b
  /\ \A id \in QueueIds :
        (\E k \in InQueue(queue) : queue[k].rawMatrixId = id) =>
           Added(queue, id) = queue

\* Jobs of two raw sample ids are held, one of them retained as completed,
\* and enqueueing either id again adds nothing.
C15_Witness ==
  /\ Cardinality(InQueue(queue)) = 2
  /\ \E k \in InQueue(queue) : queue[k].state = "completed"
  /\ \E k \in InQueue(queue) : queue[k].state \in {"waiting", "delayed", "active"}
  /\ \A k \in InQueue(queue) : Added(queue, queue[k].rawMatrixId) = queue

\* The processed samples made from a raw sample.
C16_Samples(id) ==
  {i \in 1..Len(processed) : processed[i].metadata.rawMatrixId = id}

\* C16: a job of a raw sample id that already has a processed sample (a job
\* of that id completed before, and is no longer in the queue, or the id
\* could not have been enqueued again) completes without adding another
\* sample of that id.
C16_ReenqueueAddsNothing ==
  [][\A k \in InQueue(queue) \cap InQueue(queue') :
        (/\ queue[k].state = "active"
         /\ queue'[k].state = "completed"
         /\ C16_Samples(queue[k].rawMatrixId) # {})
        => C16_Samples(queue[k].rawMatrixId)' = C16_Samples(queue[k].rawMatrixId)]_vars

\* A processed sample without the two fields of the stop update.
C17_Fixed(doc) ==
  [doc EXCEPT !.metadata =
     [k \in DOMAIN doc.metadata \ {"lastSeen", "stopCount"} |-> doc.metadata[k]]]

\* C17: every step keeps every processed sample in its place with its
\* deviceId, tripId, timestamp, coordinates and metadata other than lastSeen
\* and stopCount, and a step that changes a sample is the stop update of a
\* run that read that sample as the latest of its device.
C17_Step ==
  /\ Len(processed') >= Len(processed)
  /\ \A i \in 1..Len(processed) :
        /\ C17_Fixed(processed'[i]) = C17_Fixed(processed[i])
        /\ processed'[i] # processed[i] =>
              /\ Len(processed') = Len(processed)
              /\ \E j \in DOMAIN inflight :
                    /\ j.pc = "updateStop"
                    /\ j.lastProcessed = i
                    /\ inflight' = Take(inflight, j)
                    /\ last' = Returned(j, "stop_detected", 0)

C17_SamplesImmutable == [][C17_Step]_vars

\* A sample has been stop-updated while the collection holds another one.
C17_Witness ==
  /\ Len(processed) >= 2
  /\ \E i \in 1..Len(processed) :
        /\ "lastSeen" \in DOMAIN processed[i].metadata
        /\ processed[i].metadata.stopCount >= 1

\* C20: whatever the map matcher answers to the list of a run that is about
\* to call it, matchPath returns one point per input point.
C20_OnePerInput ==
  \A j \in DOMAIN inflight :
     j.pc = "matchPath" =>
        \A response \in OsrmResponses(j.pointsForMatching) :
           Len(matchPath(j.pointsForMatching, response))
              = Len(j.pointsForMatching)

\* What a run has read: the sample it classified against and the context
\* points it fetched are processed samples of its own device.
C19_ReadsOwnDevice ==
  \A j \in DOMAIN inflight :
     /\ j.lastProcessed # 0 =>
           processed[j.lastProcessed].deviceId = DeviceOf(j)
     /\ \A p \in 1..(Len(j.pointsForMatching) - 1) :
           \E i \in 1..Len(processed) :
              /\ processed[i].deviceId = DeviceOf(j)
              /\ processed[i].timestamp = j.pointsForMatching[p].timestamp
              /\ processed[i].coordinates.latitude = j.pointsForMatching[p].lat
              /\ processed[i].coordinates.longitude = j.pointsForMatching[p].lng

\* The runs that take a step.
C19_Stepping ==
  {j \in DOMAIN inflight :
     j \notin DOMAIN inflight' \/ inflight'[j] < inflight[j]}

\* What a step writes: a step of a run leaves the samples and the filter
\* states of every other device as they were and inserts samples of its own
\* device only; a call of processTrack writes nothing.
C19_WritesOwnDevice ==
  /\ \A j \in C19_Stepping :
        /\ \A i \in 1..Len(processed) :
              processed[i].deviceId # DeviceOf(j) =>
                 (i <= Len(processed') /\ processed'[i] = processed[i])
        /\ \A i \in (Len(processed) + 1)..Len(processed') :
              processed'[i].deviceId = DeviceOf(j)
        /\ \A d \in DeviceIds \ {DeviceOf(j)} :
              /\ d \in DOMAIN states' <=> d \in DOMAIN states
              /\ d \in DOMAIN states => states'[d] = states[d]
  /\ (C19_Stepping = {} /\ inflight' # inflight) =>
        (processed' = processed /\ states' = states)

C18_InvalidStepping ==
  {j \in DOMAIN inflight :
     /\ ~ValidCoord(DeviceMatrix[j.rawMatrixId].coordinates)
     /\ j \notin DOMAIN inflight' \/ inflight'[j] < inflight[j]}

\* C18: a step of a run whose raw sample has a NaN coordinate writes no
\* processed sample and leaves the Kalman states as they were, and when it
\* ends the run it ends it in a fault.
C18_InvalidDropped ==
  [][\A j \in C18_InvalidStepping :
        /\ processed' = processed
        /\ states' = states
        /\ Size(inflight') < Size(inflight) => last'.pc = "fault"]_vars

\* What the claim says a tracepoint of an Ok answer becomes.
C21_PointOf(points, response, i) ==
  IF response.tracepoints[i].isNull
    THEN [lat |-> points[i].lat, lng |-> points[i].lng, confidence |-> 0]
    ELSE [lat |-> response.tracepoints[i].location[2],
          lng |-> response.tracepoints[i].location[1],
          confidence |-> IF response.hasMatching THEN response.confidence
                         ELSE 0]

\* C21: fewer than 3 points come back unchanged with confidence 0 and no
\* request is sent; an answer with a code other than Ok gives every input
\* point unchanged with confidence 0; an Ok answer with tracepoints, every
\* null one of which has an input point to stand for, gives per tracepoint
\* the input point with confidence 0 when it is null and otherwise its
\* location (lat = location[1], lng = location[0], counting from 0) with the
\* confidence of the first matching, or 0 without a matching.
C21_MatchPathReadsAnswer ==
  call.op = "matchPath" =>
     /\ Len(call.points) < 3 <=> ~call.requested
     /\ ~call.requested => call.out = Echo(call.points)
     /\ (call.requested /\ call.response.kind = "body"
           /\ call.response.code # "Ok") => call.out = Echo(call.points)
     /\ (call.requested /\ call.response.kind = "body"
           /\ call.response.code = "Ok" /\ call.response.hasTracepoints
           /\ \A i \in 1..Len(call.response.tracepoints) :
                call.response.tracepoints[i].isNull => i <= Len(call.points))
        => /\ Len(call.out) = Len(call.response.tracepoints)
           /\ \A i \in 1..Len(call.out) :
                 call.out[i] = C21_PointOf(call.points, call.response, i)

\* An Ok answer with one tracepoint per point, null ones before a matched
\* tail, and a matching has been read.
C21_Witness ==
  /\ call.op = "matchPath"
  /\ call.requested
  /\ call.response.kind = "body"
  /\ call.response.code = "Ok"
  /\ call.response.hasMatching
  /\ Len(call.response.tracepoints) = Len(call.points)
  /\ call.response.tracepoints[1].isNull
  /\ ~call.response.tracepoints[Len(call.points)].isNull
  /\ call.out[Len(call.points)].confidence = call.response.confidence

\* C22: a filter call for a device without a state returns the measurement
\* unchanged and leaves the device a state at the measurement, the other
\* devices' states being as before; resetDevice removes the state of its
\* device and leaves every other device's state as it was.
C22_Step ==
  /\ (call'.op = "filter" /\ call'.n = call.n + 1
        /\ call'.deviceId \notin DOMAIN states) =>
       /\ call'.out = call'.noisyPoint
       /\ DOMAIN states' = DOMAIN states \cup {call'.deviceId}
       /\ states'[call'.deviceId].latitude = call'.noisyPoint.latitude
       /\ states'[call'.deviceId].longitude = call'.noisyPoint.longitude
       /\ \A d \in DOMAIN states : states'[d] = states[d]
  /\ (call'.op = "resetDevice" /\ call'.n = call.n + 1) =>
       /\ DOMAIN states' = DOMAIN states \ {call'.deviceId}
       /\ \A d \in DOMAIN states' : states'[d] = states[d]

C22_FirstFilterIsIdentity == [][C22_Step]_vars

\* Right after resetDevice(d), with the other device's filter running,
\* filter(d, z) has returned z.
C22_Witness ==
  /\ call.op = "filter"
  /\ call.after = "resetDevice"
  /\ ~call.hadState
  /\ call.out = call.noisyPoint
  /\ DOMAIN states = DeviceIds

\* The identity fields of a processed sample are those of the raw sample r.
C23_Carries(p, r) ==
  /\ p.metadata.rawMatrixId = r._id
  /\ p.timestamp = r.timestamp
  /\ p.deviceId = r.deviceId
  /\ p.tripId = r.tripId

\* The step that inserts a processed sample ends the run of a raw sample
\* and stores a sample with that raw sample's identity fields.
C23_InsertStep ==
  Len(processed') = Len(processed) + 1 =>
    /\ last'.pc = "done"
    /\ last'.inserted = Len(processed')
    /\ last'.rawMatrixId \in RawIds
    /\ history'[Len(processed')].branch \in {"first", "stale", "move"}
    /\ C23_Carries(processed'[Len(processed')], DeviceMatrix[last'.rawMatrixId])

\* C23: every processed sample inserted for a raw sample r, on the first
\* point, stale gap and move paths, has metadata.rawMatrixId = r._id and the
\* timestamp, deviceId and tripId of r, and keeps them.
C23_CarriesRawIdentity ==
  /\ [](\A i \in 1..Len(processed) :
          /\ processed[i].metadata.rawMatrixId \in RawIds
          /\ C23_Carries(processed[i], RawOf(i)))
  /\ [][C23_InsertStep]_vars

\* A store holding a sample of each emitting path, the last insert being
\* the one of the run that has just returned.
C23_Witness ==
  /\ {history[i].branch : i \in 1..Len(history)} = {"first", "stale", "move"}
  /\ last.pc = "done"
  /\ last.inserted = Len(processed)

\* Once the signal has arrived no job is taken, the handler goes through
\* its statements in order, and a run leaves the worker only by returning or
\* throwing on its own.
C24_ShutdownStep ==
  /\ phase # "running" => deliveries' = deliveries /\ Running' <= Running
  /\ phase' # phase =>
       << phase, phase' >> \in {<< "running", "closing" >>,
                                << "closing", "closed" >>,
                                << "closed", "disconnected" >>,
                                << "disconnected", "exited" >>}
  /\ Running' < Running => last'.pc \in {"done", "fault"}

\* C24: after SIGTERM or SIGINT the worker takes no new job, and the
\* storage connection is closed and the process exited only when no job is
\* in progress any more: no run is ever in flight without its connection.
C24_GracefulShutdown ==
  /\ [](phase \in {"closed", "disconnected", "exited"} => Running = 0)
  /\ [][C24_ShutdownStep]_vars

\* The signal met two jobs in progress, both have run to their end, the
\* last one inserting its sample, and the process has exited.
C24_Witness ==
  /\ phase = "exited"
  /\ call.op \in Signals
  /\ call.n = 2
  /\ last.pc = "done"
  /\ last.inserted = Len(processed)

\* C25: the speed recorded in a processed sample is calculateSpeed() of its
\* distance and time difference: the quotient, and 0 when no time has passed.
\* (Violated: the move of a sample of the same instant as the latest one
\* records distance / 0.)
C25_SpeedFollowsPrimitive ==
  \A i \in 1..Len(processed) :
     "speed" \in DOMAIN processed[i].metadata =>
        processed[i].metadata.speed =
          calculateSpeed(processed[i].metadata.distance,
                         processed[i].metadata.timeDiffSeconds)

\* The list is the min(count, 9) most recent processed samples of the
\* device, oldest first, followed by the smoothed point of the raw sample.
C26_Context(points, smoothed, rawMatrix) ==
  LET n == Len(points) - 1
      mine == OfDevice(rawMatrix.deviceId)
  IN /\ Len(points) >= 1
     /\ n = IF Cardinality(mine) < 9 THEN Cardinality(mine) ELSE 9
     /\ points[Len(points)] =
          MatchPoint(smoothed.latitude, smoothed.longitude,
                     rawMatrix.timestamp, rawMatrix.metadata)
     /\ \E seq \in [1..n -> mine] :
          /\ \A a, b \in 1..n : a < b =>
                /\ seq[a] # seq[b]
                /\ processed[seq[a]].timestamp <= processed[seq[b]].timestamp
          /\ \A a \in 1..n :
                /\ points[a] =
                     MatchPoint(processed[seq[a]].coordinates.latitude,
                                processed[seq[a]].coordinates.longitude,
                                processed[seq[a]].timestamp,
                                processed[seq[a]].metadata)
                /\ \A k \in mine \ {seq[b] : b \in 1..n} :
                      processed[k].timestamp <= processed[seq[a]].timestamp

\* The runs a step has moved on.
C26_Arrived ==
  {k \in DOMAIN inflight' :
     k \notin DOMAIN inflight \/ inflight'[k] > inflight[k]}

\* The step that has read the context leaves the run with that list, at the
\* matcher call when the list has 3 points or more and at the insert, with
\* the smoothed coordinates, method kalman and confidence 0, otherwise.
C26_ContextStep ==
  \A j \in C19_Stepping : \A k \in C26_Arrived :
     (j.pc = "getRecentPoints" /\ "getRecentPoints" \notin k.failed) =>
        /\ C26_Context(k.pointsForMatching, j.kalmanSmoothedCoordinates,
                       DeviceMatrix[j.rawMatrixId])
        /\ k.pc = IF Len(k.pointsForMatching) >= 3 THEN "matchPath"
                                                   ELSE "saveMove"
        /\ k.pc = "saveMove" =>
             /\ k.finalCoordinates = j.kalmanSmoothedCoordinates
             /\ k.processingMethod = "kalman"
             /\ k.matchingConfidence = 0

\* The matcher has been called for exactly the stored move samples whose
\* list had 3 points or more; the others carry the smoothed coordinates,
\* method kalman and confidence 0.
C26_Emitted ==
  \A i \in 1..Len(processed) :
     history[i].branch = "move" =>
       /\ history[i].contextLen >= 3 => history[i].matcher # "none"
       /\ history[i].contextLen \in 1..2 =>
            /\ history[i].matcher = "none"
            /\ processed[i].coordinates = history[i].smoothed
            /\ MethodOf(i) = "kalman"
            /\ processed[i].metadata.matchingConfidence = 0

C27_FaultLeavesFilter ==
  (deliveries = 1 /\ Running = 0 /\ last.pc = "fault") => states = << >>

\* C28: for each device at most one processed sample is inserted through
\* the first-point branch.
\* (Violated: two concurrent runs of a device both find no sample.)
C28_OneFirstPoint ==
  \A d \in DeviceIds :
     Cardinality({i \in OfDevice(d) : history[i].branch = "first"}) <= 1

\* The runs in flight are of different devices.
C29_OneAtATime ==
  \A j \in DOMAIN inflight :
     /\ inflight[j] = 1
     /\ \A k \in DOMAIN inflight : k # j => DeviceOf(k) # DeviceOf(j)

\* A device's samples are stored in the order of their timestamps.
C29_Ordered ==
  \A i, k \in 1..Len(processed) :
     (i < k /\ processed[i].deviceId = processed[k].deviceId) =>
        processed[i].timestamp <= processed[k].timestamp

\* An inserted sample is not older than any stored sample of its device.
C29_InsertStep ==
  Len(processed') = Len(processed) + 1 =>
    \A i \in 1..Len(processed) :
       processed[i].deviceId = processed'[Len(processed')].deviceId =>
          processed[i].timestamp <= processed'[Len(processed')].timestamp

\* C29: when the jobs of a device run one at a time, every processed sample
\* a job inserts has a timestamp >= that of every sample already stored for
\* the device, so insertion order is timestamp order.
C29_InsertionInTimeOrder ==
  /\ [](C29_OneAtATime /\ C29_Ordered)
  /\ [][C29_InsertStep]_vars

\* After a later sample has been inserted, the job of an earlier sample of
\* the device has run and has been skipped.
C29_Witness ==
  /\ Len(processed) >= 2
  /\ processed[1].timestamp < processed[Len(processed)].timestamp
  /\ last.action = "skipped_out_of_order"
  /\ last.rawMatrixId \in RawIds
  /\ DeviceMatrix[last.rawMatrixId].timestamp < processed[Len(processed)].timestamp
  /\ DeviceMatrix[last.rawMatrixId].deviceId = processed[Len(processed)].deviceId

\* C30: metadata.lastSeen of a processed sample is never earlier than the
\* sample's timestamp and never decreases from one stop update to the next.
\* (Violated: a stop sample older than the one that set lastSeen, but not
\* older than the processed sample, sets lastSeen back.)
C30_LastSeenStep ==
  \A i \in 1..Len(processed) :
     /\ "lastSeen" \in DOMAIN processed'[i].metadata =>
           processed'[i].metadata.lastSeen >= processed'[i].timestamp
     /\ "lastSeen" \in DOMAIN processed[i].metadata =>
           /\ "lastSeen" \in DOMAIN processed'[i].metadata
           /\ processed'[i].metadata.lastSeen >= processed[i].metadata.lastSeen

C30_LastSeenNeverDecreases == [][C30_LastSeenStep]_vars

====
